---- MODULE Spec2Model ----
(***************************************************************************)
(* The notebook guides/ipynb/writing_a_custom_training_loop_in_jax.ipynb   *)
(* as a state machine: its code cells run top to bottom, each cell (and    *)
(* each step of a loop body) is one action.                                *)
(*                                                                         *)
(* Numbers.  The notebook computes in float32; here every real number is a *)
(* fixed-point integer with FP units to 1.0, rounded to nearest.  The      *)
(* network is scaled down to its last layer, Dense(NumClasses), a kernel   *)
(* and a bias, on a one-feature input.  The categorical cross-entropy is   *)
(* taken in its zero-temperature limit, max(logits) - logit[label], whose  *)
(* gradient with respect to the logits is onehot(argmax) - onehot(label).  *)
(* Adam follows keras.optimizers.Adam with its default hyperparameters.    *)
(***************************************************************************)
EXTENDS Integers, Sequences, FiniteSets

VARIABLES
    pc,                       \* the program point of the notebook run
    model,                    \* global `model`: the Model object
    optimizer,                \* global `optimizer`: the Adam object
    train_acc_metric,         \* global `train_acc_metric`: the metric object
    val_acc_metric,           \* global `val_acc_metric`: the metric object
    defs,                     \* which definition each function name is bound to
    state,                    \* global `state`: the running state tuple
    trainable_variables,      \* global `trainable_variables`
    non_trainable_variables,  \* global `non_trainable_variables`
    optimizer_variables,      \* global `optimizer_variables`
    metric_variables,         \* global `metric_variables`
    step,                     \* loop variable `step`
    data,                     \* loop variable `data`, a batch (x, y)
    loss,                     \* global `loss`
    grads,                    \* `grads` of the last train_step call
    it,                       \* how many batches the running enumerate() has yielded
    printed,                  \* what the last logging block printed
    writes,                   \* per object: how many times its variables were assigned
    reads,                    \* per object: how many times its variables were read into a state
    seen,                     \* results of repeated step calls (purity runs only)
    fed,                      \* the samples fed to a metric so far (metric runs only)
    frame,                    \* the local names of a step call in progress (sub-step runs only)
    trace,                    \* the sub-steps the step call in progress has done, in order
    consumed                  \* the batches the running training loop has drawn, in order

vars ==
    << pc, model, optimizer, train_acc_metric, val_acc_metric, defs, state,
       trainable_variables, non_trainable_variables, optimizer_variables,
       metric_variables, step, data, loss, grads, it, printed, writes, reads,
       seen, fed,
                    frame, trace, consumed >>

-----------------------------------------------------------------------------
(* Bounds of the model *)

\* the training dataset yields at most this many batches
MaxTrainBatches == 2

\* the validation dataset yields at most this many batches
MaxValBatches == 2

\* a batch holds at most this many samples
MaxBatchSize == 1

\* the datasets of the logging runs yield this many batches
MaxLogSteps == 102

-----------------------------------------------------------------------------
(* Program constants *)

\* Dense(10, name="predictions"): the number of classes, scaled down
NumClasses == 2

\* `if step % 100 == 0`
LogEvery == 100

\* Adam's beta_1 = 0.9, beta_2 = 0.999, in thousandths
Beta1 == 900
Beta2 == 999

\* Adam(learning_rate=1e-3), in thousandths
LearningRate == 1

\* Adam's epsilon = 1e-7, as the smallest positive fixed-point number
Epsilon == 1

\* fixed point: FP units to 1.0
FP == 10 * 100

Classes == 1..NumClasses

\* the feature values of a sample (a one-feature input)
Inputs == {1}

-----------------------------------------------------------------------------
(* Fixed-point arithmetic *)

\* a / b rounded to nearest, halves away from zero (b > 0)
RDiv(a, b) ==
    IF a >= 0 THEN (2 * a + b) \div (2 * b) ELSE -((2 * (-a) + b) \div (2 * b))

Mul(a, b) == RDiv(a * b, FP)

Div(a, b) == RDiv(a * FP, b)

RECURSIVE SqrtSearch(_, _, _)
\* the largest r in lo..hi with r * r <= n
SqrtSearch(n, lo, hi) ==
    IF lo >= hi THEN lo
    ELSE LET mid == (lo + hi + 1) \div 2
         IN  IF mid * mid <= n THEN SqrtSearch(n, mid, hi)
             ELSE SqrtSearch(n, lo, mid - 1)

\* sqrt of a fixed-point number a >= 0 (it lies between 0 and a + FP)
Sqrt(a) == SqrtSearch(a * FP, 0, a + FP)

RECURSIVE Power(_, _)
\* b ^ n for a fixed-point b, by repeated squaring
Power(b, n) ==
    IF n = 0 THEN FP
    ELSE IF n % 2 = 1 THEN Mul(Power(b, n - 1), b)
    ELSE LET half == Power(b, n \div 2) IN Mul(half, half)

RECURSIVE SumSeq(_)
SumSeq(s) == IF s = << >> THEN 0 ELSE Head(s) + SumSeq(Tail(s))

\* the mean of a non-empty sequence of fixed-point numbers
Mean(s) == RDiv(SumSeq(s), Len(s))

\* zip(a, b) runs over the shorter of the two
ZipLen(a, b) == IF Len(a) <= Len(b) THEN Len(a) ELSE Len(b)

-----------------------------------------------------------------------------
(* Data *)

\* keras.utils.to_categorical: the one-hot row of a class
to_categorical(c) == [k \in Classes |-> IF k = c THEN 1 ELSE 0]

\* a batch (x, y) as the dataset yields it: n features and n one-hot labels
Batches ==
    UNION { { << x, y >> : x \in [1..n -> Inputs],
                           y \in [1..n -> { to_categorical(c) : c \in Classes }] }
            : n \in 1..MaxBatchSize }

\* the values the kernel initializer can draw (the bias starts at zero): one
\* class is favoured at the start
InitKernels == { [c \in Classes |-> IF c = k THEN 2 ELSE 0] : k \in Classes }

\* the logits a model can give one sample
LogitRows == [Classes -> {-FP, 0, FP}]

\* argmax over a row: the first index holding the largest value
ArgMax(row) ==
    CHOOSE k \in 1..Len(row) :
        /\ \A j \in 1..Len(row) : row[j] <= row[k]
        /\ \A j \in 1..(k - 1) : row[j] < row[k]

-----------------------------------------------------------------------------
(* The objects the notebook builds *)

\* get_model(): a functional model, built, its kernel drawn by the initializer
get_model(kernel) ==
    [ trainable_variables |-> << kernel, [c \in Classes |-> 0] >>,
      non_trainable_variables |-> << >>,
      layers |-> "dense" ]

\* keras.Model(inputs, outputs) over the ActivityRegularizationLayer
activity_model(kernel) ==
    [ trainable_variables |-> << kernel, [c \in Classes |-> 0] >>,
      non_trainable_variables |-> << >>,
      layers |-> "dense+activity_regularization" ]

\* keras.optimizers.Adam(learning_rate=1e-3), not built yet
Adam == [ built |-> FALSE, variables |-> << >> ]

\* the zero state of a CategoricalAccuracy: (total, count)
MetricZero == << 0, 0 >>

\* keras.metrics.CategoricalAccuracy()
CategoricalAccuracy == [ variables |-> MetricZero ]

\* a name that is not bound yet
Unbound == [ variables |-> << >> ]

\* optimizer.build(var_list): iterations, learning rate, and per variable a
\* momentum and a velocity of the variable's shape, all zero
build(opt, var_list) ==
    LET zeros(v) == [k \in 1..Len(v) |-> 0]
    IN  [ built |-> TRUE,
          variables |-> << 0, LearningRate,
                           zeros(var_list[1]), zeros(var_list[1]),
                           zeros(var_list[2]), zeros(var_list[2]) >> ]

\* assign_all with the loop stopping one variable short
assign_all_skip_last(variables, values) ==
    [ i \in 1..Len(variables) |->
        IF i < ZipLen(variables, values) THEN values[i] ELSE variables[i] ]

\* for variable, value in zip(variables, values): variable.assign(value)
assign_all(variables, values) ==
    [ i \in 1..Len(variables) |->
        IF i <= ZipLen(variables, values) THEN values[i] ELSE variables[i] ]

-----------------------------------------------------------------------------
(* The stateless entry points of the model, the loss, the optimizer and the *)
(* metric.  Each reads the global object it is a method of, as the code does *)

\* the logits of one sample under explicit variable values (kernel, bias)
Logits(variables, xi) ==
    [c \in Classes |-> variables[1][c] * xi + variables[2][c]]

\* stateless_call as model(x) would be: the outputs under the values attached
\* to the model object, not under the values passed in
stateless_call_attached(tv, ntv, x) ==
    << [i \in 1..Len(x) |-> Logits(model.trainable_variables, x[i])], ntv >>

\* model.stateless_call(trainable_variables, non_trainable_variables, x):
\* the outputs under the values passed in, and the non-trainable values
stateless_call(tv, ntv, x) ==
    << [i \in 1..Len(x) |-> Logits(tv, x[i])], ntv >>

\* model.losses after the forward pass: the activity regularization term,
\* 1e-2 * sum(inputs), of a model that holds such a layer
Losses(x) ==
    IF model.layers = "dense+activity_regularization"
    THEN << RDiv(SumSeq(x) * FP, 100) >>
    ELSE << >>

\* model.stateless_call(..., return_losses=True)
stateless_call_return_losses(tv, ntv, x) ==
    << stateless_call(tv, ntv, x)[1], stateless_call(tv, ntv, x)[2], Losses(x) >>

\* loss_fn(y, y_pred): the mean over the batch of the per-sample loss
loss_fn(y, y_pred) ==
    Mean([i \in 1..Len(y) |->
            y_pred[i][ArgMax(y_pred[i])] - y_pred[i][ArgMax(y[i])]])

\* d loss / d logit[c] of sample i: onehot(argmax) - onehot(label)
DLogit(y, y_pred, i, c) ==
    (IF ArgMax(y_pred[i]) = c THEN 1 ELSE 0) - y[i][c]

\* the gradient of loss_fn(y, stateless_call(tv, ntv, x)) with respect to tv,
\* of tv's shape: what jax.value_and_grad derives for the first argument
Gradient(tv, ntv, x, y) ==
    LET y_pred == stateless_call(tv, ntv, x)[1]
    IN  << [c \in Classes |->
              Mean([i \in 1..Len(x) |-> DLogit(y, y_pred, i, c) * x[i] * FP])],
           [c \in Classes |->
              Mean([i \in 1..Len(x) |-> DLogit(y, y_pred, i, c) * FP])] >>

\* AdamUpdate with the momentum left out of the step
AdamUpdate_no_momentum(variable, gradient, m, v, lr, local_step) ==
    LET beta_1_power == Power(Beta1, local_step)
        beta_2_power == Power(Beta2, local_step)
        correction == Div(Sqrt(FP - beta_2_power), FP - beta_1_power)
        m2 == [k \in 1..Len(variable) |->
                 m[k] + Mul(gradient[k] - m[k], FP - Beta1)]
        v2 == [k \in 1..Len(variable) |->
                 v[k] + Mul(Mul(gradient[k], gradient[k]) - v[k], FP - Beta2)]
    IN  << [k \in 1..Len(variable) |->
              variable[k] - Mul(lr, Div(correction, Sqrt(v2[k]) + Epsilon))],
           m2, v2 >>

\* Adam's update of one variable: (variable', momentum', velocity').  The
\* factors of the step are multiplied in the order that keeps precision.
AdamUpdate(variable, gradient, m, v, lr, local_step) ==
    LET beta_1_power == Power(Beta1, local_step)
        beta_2_power == Power(Beta2, local_step)
        correction == Div(Sqrt(FP - beta_2_power), FP - beta_1_power)
        m2 == [k \in 1..Len(variable) |->
                 m[k] + Mul(gradient[k] - m[k], FP - Beta1)]
        v2 == [k \in 1..Len(variable) |->
                 v[k] + Mul(Mul(gradient[k], gradient[k]) - v[k], FP - Beta2)]
    IN  << [k \in 1..Len(variable) |->
              variable[k]
                - Mul(lr, Div(Mul(m2[k], correction), Sqrt(v2[k]) + Epsilon))],
           m2, v2 >>

\* optimizer.stateless_apply(optimizer_variables, grads, trainable_variables):
\* (trainable_variables', optimizer_variables'), nothing assigned in place
stateless_apply(ov, g, tv) ==
    LET local_step == ov[1] + 1
        kernel == AdamUpdate(tv[1], g[1], ov[3], ov[4], ov[2], local_step)
        bias == AdamUpdate(tv[2], g[2], ov[5], ov[6], ov[2], local_step)
    IN  << << kernel[1], bias[1] >>,
           << ov[1] + 1, ov[2], kernel[2], kernel[3], bias[2], bias[3] >> >>

\* stateless_update_state replacing the accumulator by the batch's own sums
stateless_update_state_replacing(mv, y, y_pred) ==
    << SumSeq([i \in 1..Len(y) |->
                 IF ArgMax(y[i]) = ArgMax(y_pred[i]) THEN 1 ELSE 0]),
       Len(y) >>

\* metric.stateless_update_state(metric_variables, y, y_pred): (total, count)
\* plus the matches and the number of samples of the batch
stateless_update_state(mv, y, y_pred) ==
    << mv[1] + SumSeq([i \in 1..Len(y) |->
                         IF ArgMax(y[i]) = ArgMax(y_pred[i]) THEN 1 ELSE 0]),
       mv[2] + Len(y) >>

\* metric.result() on given variables: total / count, 0 when count is 0
result(mv) == IF mv[2] = 0 THEN 0 ELSE Div(mv[1], mv[2])

-----------------------------------------------------------------------------
(* The functions the cells define.  A name of the notebook that is defined *)
(* more than once carries the number of its definition.                     *)

\* compute_loss_and_updates of the first example
compute_loss_and_updates_1(tv, ntv, x, y) ==
    LET out == stateless_call(tv, ntv, x)
    IN  << loss_fn(y, out[1]), out[2] >>

\* compute_loss_and_updates with metrics
compute_loss_and_updates_2(tv, ntv, mv, x, y) ==
    LET out == stateless_call(tv, ntv, x)
    IN  << loss_fn(y, out[1]),
           << out[2], stateless_update_state(mv, y, out[1]) >> >>

\* compute_loss_and_updates with the losses tracked by the model
compute_loss_and_updates_3(tv, ntv, mv, x, y) ==
    LET out == stateless_call_return_losses(tv, ntv, x)
    IN  << IF out[3] # << >> THEN loss_fn(y, out[1]) + SumSeq(out[3])
           ELSE loss_fn(y, out[1]),
           out[2],
           stateless_update_state(mv, y, out[1]) >>

\* grad_fn = jax.value_and_grad(compute_loss_and_updates, has_aux=True), first
\* example: ((loss, aux), grads)
grad_fn_1(tv, ntv, x, y) ==
    << compute_loss_and_updates_1(tv, ntv, x, y), Gradient(tv, ntv, x, y) >>

\* grad_fn of the example with metrics
grad_fn_2(tv, ntv, mv, x, y) ==
    << compute_loss_and_updates_2(tv, ntv, mv, x, y), Gradient(tv, ntv, x, y) >>

\* train_step of the first example (the jitted one): (loss, state')
train_step_1(st, batch) ==
    LET g == grad_fn_1(st[1], st[2], batch[1], batch[2])
        applied == stateless_apply(st[3], g[2], st[1])
    IN  << g[1][1], << applied[1], g[1][2], applied[2] >> >>

\* train_step with metrics returning the metric variables before the
\* optimizer variables
train_step_2_reordered(st, batch) ==
    LET g == grad_fn_2(st[1], st[2], st[4], batch[1], batch[2])
        applied == stateless_apply(st[3], g[2], st[1])
    IN  << g[1][1], << applied[1], g[1][2][1], g[1][2][2], applied[2] >> >>

\* train_step with metrics: (loss, state')
train_step_2(st, batch) ==
    LET g == grad_fn_2(st[1], st[2], st[4], batch[1], batch[2])
        applied == stateless_apply(st[3], g[2], st[1])
    IN  << g[1][1], << applied[1], g[1][2][1], applied[2], g[1][2][2] >> >>

\* eval_step that also applies an optimizer update to the trainable variables
eval_step_updating(st, batch) ==
    LET out == stateless_call(st[1], st[2], batch[1])
        g == Gradient(st[1], st[2], batch[1], batch[2])
    IN  << loss_fn(batch[2], out[1]),
           << stateless_apply(optimizer_variables, g, st[1])[1], out[2],
              stateless_update_state(st[3], batch[2], out[1]) >> >>

\* eval_step: (loss, state')
eval_step(st, batch) ==
    LET out == stateless_call(st[1], st[2], batch[1])
    IN  << loss_fn(batch[2], out[1]),
           << st[1], out[2], stateless_update_state(st[3], batch[2], out[1]) >> >>

\* the name compute_loss_and_updates, as the cells have bound it so far (its
\* first definition takes no metric variables)
compute_loss_and_updates(tv, ntv, mv, x, y) ==
    CASE defs.compute_loss_and_updates = 1 ->
           compute_loss_and_updates_1(tv, ntv, x, y)
      [] defs.compute_loss_and_updates = 2 ->
           compute_loss_and_updates_2(tv, ntv, mv, x, y)
      [] defs.compute_loss_and_updates = 3 ->
           compute_loss_and_updates_3(tv, ntv, mv, x, y)

-----------------------------------------------------------------------------
(* The notebook run *)

Objects == {"model", "optimizer", "train_acc_metric", "val_acc_metric"}

\* the counters f with one more access to each object of names
Count(f, names) == [o \in Objects |-> IF o \in names THEN f[o] + 1 ELSE f[o]]

\* the counters f with those of the objects of names, built afresh, at zero
Fresh(f, names) == [o \in Objects |-> IF o \in names THEN 0 ELSE f[o]]

\* the state after the cells that define the first example: the model, the
\* loss, the optimizer, compute_loss_and_updates, grad_fn and train_step
Init ==
    /\ pc = "cell17"
    /\ \E kernel \in InitKernels : model = get_model(kernel)
    /\ optimizer = Adam
    /\ train_acc_metric = Unbound
    /\ val_acc_metric = Unbound
    /\ defs = [ compute_loss_and_updates |-> 1, grad_fn |-> 1,
                train_step |-> 1, eval_step |-> 0 ]
    /\ state = << >>
    /\ trainable_variables = << >>
    /\ non_trainable_variables = << >>
    /\ optimizer_variables = << >>
    /\ metric_variables = << >>
    /\ step = 0
    /\ data = << >>
    /\ loss = 0
    /\ grads = << >>
    /\ it = 0
    /\ printed = << >>
    /\ writes = [o \in Objects |-> 0]
    /\ reads = [o \in Objects |-> 0]
    /\ seen = {}
    /\ fed = << >>
    /\ frame = << >>
    /\ trace = << >>
    /\ consumed = << >>

\* first example: build the optimizer and read the initial state
Cell17 ==
    /\ pc = "cell17"
    /\ optimizer' = build(optimizer, model.trainable_variables)
    /\ trainable_variables' = model.trainable_variables
    /\ non_trainable_variables' = model.non_trainable_variables
    /\ optimizer_variables' = optimizer'.variables
    /\ state' = << trainable_variables', non_trainable_variables',
                   optimizer_variables' >>
    /\ reads' = Count(reads, {"model", "optimizer"})
    /\ it' = 0
    /\ consumed' = << >>
    /\ pc' = "loop1"
    /\ UNCHANGED << model, train_acc_metric, val_acc_metric, defs,
                    metric_variables, step, data, loss, grads, printed,
                    writes, seen, fed,
                    frame, trace >>

\* for step, data in enumerate(train_dataset): the next batch
Loop1Next ==
    /\ pc = "loop1"
    /\ it < MaxTrainBatches
    /\ \E batch \in Batches : data' = batch
    /\ step' = it
    /\ it' = it + 1
    /\ consumed' = Append(consumed, data')
    /\ pc' = "loop1_call"
    /\ UNCHANGED << model, optimizer, train_acc_metric, val_acc_metric, defs,
                    state, trainable_variables, non_trainable_variables,
                    optimizer_variables, metric_variables, loss, grads,
                    printed, writes, reads, seen, fed,
                    frame, trace >>

\* the training dataset is exhausted
Loop1End ==
    /\ pc = "loop1"
    /\ it >= 1
    /\ pc' = "cell19"
    /\ UNCHANGED << model, optimizer, train_acc_metric, val_acc_metric, defs,
                    state, trainable_variables, non_trainable_variables,
                    optimizer_variables, metric_variables, step, data, loss,
                    grads, it, printed, writes, reads, seen, fed,
                    frame, trace, consumed >>

\* the loop body with the new values also assigned to the model in place
Loop1Call_inplace ==
    /\ pc = "loop1_call"
    /\ loss' = train_step_1(state, data)[1]
    /\ state' = train_step_1(state, data)[2]
    /\ grads' = grad_fn_1(state[1], state[2], data[1], data[2])[2]
    /\ model' = [ model EXCEPT !.trainable_variables = state'[1] ]
    /\ pc' = "loop1_log"
    /\ UNCHANGED << optimizer, train_acc_metric, val_acc_metric, defs,
                    trainable_variables, non_trainable_variables,
                    optimizer_variables, metric_variables, step, data, it,
                    printed, writes, reads, seen, fed,
                    frame, trace, consumed >>

\* loss, state = train_step(state, data)
Loop1Call ==
    /\ pc = "loop1_call"
    /\ loss' = train_step_1(state, data)[1]
    /\ state' = train_step_1(state, data)[2]
    /\ grads' = grad_fn_1(state[1], state[2], data[1], data[2])[2]
    /\ pc' = "loop1_log"
    /\ UNCHANGED << model, optimizer, train_acc_metric, val_acc_metric, defs,
                    trainable_variables, non_trainable_variables,
                    optimizer_variables, metric_variables, step, data, it,
                    printed, writes, reads, seen, fed,
                    frame, trace, consumed >>

\* if step % 100 == 0: print the loss and the samples seen
Loop1Log ==
    /\ pc = "loop1_log"
    /\ printed' = IF step % LogEvery = 0
                  THEN << "train", step, loss >> ELSE printed
    /\ pc' = "loop1"
    /\ UNCHANGED << model, optimizer, train_acc_metric, val_acc_metric, defs,
                    state, trainable_variables, non_trainable_variables,
                    optimizer_variables, metric_variables, step, data, loss,
                    grads, it, writes, reads, seen, fed,
                    frame, trace, consumed >>

\* attach the new variable values back to the model
Cell19 ==
    /\ pc = "cell19"
    /\ trainable_variables' = state[1]
    /\ non_trainable_variables' = state[2]
    /\ optimizer_variables' = state[3]
    /\ model' = [ model EXCEPT
                    !.trainable_variables = assign_all(@, state[1]),
                    !.non_trainable_variables = assign_all(@, state[2]) ]
    /\ writes' = Count(writes, {"model"})
    /\ pc' = "cell21"
    /\ UNCHANGED << optimizer, train_acc_metric, val_acc_metric, defs, state,
                    metric_variables, step, data, loss, grads, it, printed,
                    reads, seen, fed,
                    frame, trace, consumed >>

\* a fresh model, optimizer, loss and metrics; compute_loss_and_updates,
\* grad_fn and train_step defined again, with metrics
Cell21 ==
    /\ pc = "cell21"
    /\ \E kernel \in InitKernels : model' = get_model(kernel)
    /\ optimizer' = Adam
    /\ train_acc_metric' = CategoricalAccuracy
    /\ val_acc_metric' = CategoricalAccuracy
    /\ defs' = [ defs EXCEPT !.compute_loss_and_updates = 2, !.grad_fn = 2,
                             !.train_step = 2 ]
    /\ writes' = Fresh(writes, Objects)
    /\ reads' = Fresh(reads, Objects)
    /\ pc' = "cell23"
    /\ UNCHANGED << state, trainable_variables, non_trainable_variables,
                    optimizer_variables, metric_variables, step, data, loss,
                    grads, it, printed, seen, fed,
                    frame, trace, consumed >>

\* eval_step is defined
Cell23 ==
    /\ pc = "cell23"
    /\ defs' = [ defs EXCEPT !.eval_step = 1 ]
    /\ pc' = "cell25"
    /\ UNCHANGED << model, optimizer, train_acc_metric, val_acc_metric, state,
                    trainable_variables, non_trainable_variables,
                    optimizer_variables, metric_variables, step, data, loss,
                    grads, it, printed, writes, reads, seen, fed,
                    frame, trace, consumed >>

\* build the optimizer and read the initial state, metric variables included
Cell25 ==
    /\ pc = "cell25"
    /\ optimizer' = build(optimizer, model.trainable_variables)
    /\ trainable_variables' = model.trainable_variables
    /\ non_trainable_variables' = model.non_trainable_variables
    /\ optimizer_variables' = optimizer'.variables
    /\ metric_variables' = train_acc_metric.variables
    /\ state' = << trainable_variables', non_trainable_variables',
                   optimizer_variables', metric_variables' >>
    /\ reads' = Count(reads, {"model", "optimizer", "train_acc_metric"})
    /\ it' = 0
    /\ consumed' = << >>
    /\ pc' = "loop2"
    /\ UNCHANGED << model, train_acc_metric, val_acc_metric, defs, step, data,
                    loss, grads, printed, writes, seen, fed,
                    frame, trace >>

\* for step, data in enumerate(train_dataset): the next batch
Loop2Next ==
    /\ pc = "loop2"
    /\ it < MaxTrainBatches
    /\ \E batch \in Batches : data' = batch
    /\ step' = it
    /\ it' = it + 1
    /\ consumed' = Append(consumed, data')
    /\ pc' = "loop2_call"
    /\ UNCHANGED << model, optimizer, train_acc_metric, val_acc_metric, defs,
                    state, trainable_variables, non_trainable_variables,
                    optimizer_variables, metric_variables, loss, grads,
                    printed, writes, reads, seen, fed,
                    frame, trace >>

\* the training dataset is exhausted
Loop2End ==
    /\ pc = "loop2"
    /\ it >= 1
    /\ pc' = "handoff"
    /\ UNCHANGED << model, optimizer, train_acc_metric, val_acc_metric, defs,
                    state, trainable_variables, non_trainable_variables,
                    optimizer_variables, metric_variables, step, data, loss,
                    grads, it, printed, writes, reads, seen, fed,
                    frame, trace, consumed >>

\* the loop body with the optimizer's own variables assigned during the step,
\* as optimizer.apply() does
Loop2Call_apply ==
    /\ pc = "loop2_call"
    /\ loss' = train_step_2(state, data)[1]
    /\ state' = train_step_2(state, data)[2]
    /\ grads' = grad_fn_2(state[1], state[2], state[4], data[1], data[2])[2]
    /\ optimizer' = [ optimizer EXCEPT !.variables = state'[3] ]
    /\ writes' = Count(writes, {"optimizer"})
    /\ pc' = "loop2_log"
    /\ UNCHANGED << model, train_acc_metric, val_acc_metric, defs,
                    trainable_variables, non_trainable_variables,
                    optimizer_variables, metric_variables, step, data, it,
                    printed, reads, seen, fed,
                    frame, trace, consumed >>

\* the loop body keeping the loss and dropping the state the step returned
Loop2Call_discarding ==
    /\ pc = "loop2_call"
    /\ loss' = train_step_2(state, data)[1]
    /\ grads' = grad_fn_2(state[1], state[2], state[4], data[1], data[2])[2]
    /\ pc' = "loop2_log"
    /\ UNCHANGED << model, optimizer, train_acc_metric, val_acc_metric, defs,
                    state, trainable_variables, non_trainable_variables,
                    optimizer_variables, metric_variables, step, data, it,
                    printed, writes, reads, seen, fed, frame, trace,
                    consumed >>

\* loss, state = train_step(state, data)
Loop2Call ==
    /\ pc = "loop2_call"
    /\ loss' = train_step_2(state, data)[1]
    /\ state' = train_step_2(state, data)[2]
    /\ grads' = grad_fn_2(state[1], state[2], state[4], data[1], data[2])[2]
    /\ pc' = "loop2_log"
    /\ UNCHANGED << model, optimizer, train_acc_metric, val_acc_metric, defs,
                    trainable_variables, non_trainable_variables,
                    optimizer_variables, metric_variables, step, data, it,
                    printed, writes, reads, seen, fed,
                    frame, trace, consumed >>

\* if step % 100 == 0: attach the state's metric variables to the metric
\* object and print its result
Loop2Log ==
    /\ pc = "loop2_log"
    /\ IF step % LogEvery = 0
       THEN /\ metric_variables' = state[4]
            /\ train_acc_metric' =
                 [ train_acc_metric EXCEPT
                     !.variables = assign_all(@, metric_variables') ]
            /\ printed' = << "train", step, loss,
                             result(train_acc_metric'.variables) >>
            /\ writes' = Count(writes, {"train_acc_metric"})
       ELSE UNCHANGED << metric_variables, train_acc_metric, printed, writes >>
    /\ pc' = "loop2"
    /\ UNCHANGED << model, optimizer, val_acc_metric, defs, state,
                    trainable_variables, non_trainable_variables,
                    optimizer_variables, step, data, loss, grads, it, reads,
                    seen, fed,
                    frame, trace, consumed >>

\* between the loops: metric_variables = val_acc_metric.variables, then the
\* four names are unpacked from state, and state becomes the eval triple
Handoff ==
    /\ pc = "handoff"
    /\ trainable_variables' = state[1]
    /\ non_trainable_variables' = state[2]
    /\ optimizer_variables' = state[3]
    /\ metric_variables' = state[4]
    /\ state' = << trainable_variables', non_trainable_variables',
                   metric_variables' >>
    /\ reads' = Count(reads, {"val_acc_metric"})
    /\ it' = 0
    /\ pc' = "loop3"
    /\ UNCHANGED << model, optimizer, train_acc_metric, val_acc_metric, defs,
                    step, data, loss, grads, printed, writes, seen, fed,
                    frame, trace, consumed >>

\* for step, data in enumerate(val_dataset): the next batch
Loop3Next ==
    /\ pc = "loop3"
    /\ it < MaxValBatches
    /\ \E batch \in Batches : data' = batch
    /\ step' = it
    /\ it' = it + 1
    /\ pc' = "loop3_call"
    /\ UNCHANGED << model, optimizer, train_acc_metric, val_acc_metric, defs,
                    state, trainable_variables, non_trainable_variables,
                    optimizer_variables, metric_variables, loss, grads,
                    printed, writes, reads, seen, fed,
                    frame, trace, consumed >>

\* the validation dataset is exhausted
Loop3End ==
    /\ pc = "loop3"
    /\ it >= 1
    /\ pc' = "cell29"
    /\ UNCHANGED << model, optimizer, train_acc_metric, val_acc_metric, defs,
                    state, trainable_variables, non_trainable_variables,
                    optimizer_variables, metric_variables, step, data, loss,
                    grads, it, printed, writes, reads, seen, fed,
                    frame, trace, consumed >>

\* loss, state = eval_step(state, data)
Loop3Call ==
    /\ pc = "loop3_call"
    /\ loss' = eval_step(state, data)[1]
    /\ state' = eval_step(state, data)[2]
    /\ pc' = "loop3_log"
    /\ UNCHANGED << model, optimizer, train_acc_metric, val_acc_metric, defs,
                    trainable_variables, non_trainable_variables,
                    optimizer_variables, metric_variables, step, data, grads,
                    it, printed, writes, reads, seen, fed,
                    frame, trace, consumed >>

\* the logging block calling result() before it assigns the state's metric
\* variables to val_acc_metric
Loop3Log_result_first ==
    /\ pc = "loop3_log"
    /\ IF step % LogEvery = 0
       THEN /\ metric_variables' = state[3]
            /\ printed' = << "val", step, loss,
                             result(val_acc_metric.variables) >>
            /\ val_acc_metric' =
                 [ val_acc_metric EXCEPT
                     !.variables = assign_all(@, metric_variables') ]
            /\ writes' = Count(writes, {"val_acc_metric"})
       ELSE UNCHANGED << metric_variables, val_acc_metric, printed, writes >>
    /\ pc' = "loop3"
    /\ UNCHANGED << model, optimizer, train_acc_metric, defs, state,
                    trainable_variables, non_trainable_variables,
                    optimizer_variables, step, data, loss, grads, it, reads,
                    seen, fed, frame, trace, consumed >>

\* if step % 100 == 0: attach the state's metric variables to val_acc_metric
\* and print its result
Loop3Log ==
    /\ pc = "loop3_log"
    /\ IF step % LogEvery = 0
       THEN /\ metric_variables' = state[3]
            /\ val_acc_metric' =
                 [ val_acc_metric EXCEPT
                     !.variables = assign_all(@, metric_variables') ]
            /\ printed' = << "val", step, loss,
                             result(val_acc_metric'.variables) >>
            /\ writes' = Count(writes, {"val_acc_metric"})
       ELSE UNCHANGED << metric_variables, val_acc_metric, printed, writes >>
    /\ pc' = "loop3"
    /\ UNCHANGED << model, optimizer, train_acc_metric, defs, state,
                    trainable_variables, non_trainable_variables,
                    optimizer_variables, step, data, loss, grads, it, reads,
                    seen, fed,
                    frame, trace, consumed >>

\* a model with an ActivityRegularizationLayer replaces `model`
Cell29 ==
    /\ pc = "cell29"
    /\ \E kernel \in InitKernels : model' = activity_model(kernel)
    /\ writes' = Fresh(writes, {"model"})
    /\ reads' = Fresh(reads, {"model"})
    /\ pc' = "cell31"
    /\ UNCHANGED << optimizer, train_acc_metric, val_acc_metric, defs, state,
                    trainable_variables, non_trainable_variables,
                    optimizer_variables, metric_variables, step, data, loss,
                    grads, it, printed, seen, fed,
                    frame, trace, consumed >>

\* compute_loss_and_updates is defined a third time, with the tracked losses
Cell31 ==
    /\ pc = "cell31"
    /\ defs' = [ defs EXCEPT !.compute_loss_and_updates = 3 ]
    /\ pc' = "done"
    /\ UNCHANGED << model, optimizer, train_acc_metric, val_acc_metric, state,
                    trainable_variables, non_trainable_variables,
                    optimizer_variables, metric_variables, step, data, loss,
                    grads, it, printed, writes, reads, seen, fed,
                    frame, trace, consumed >>

Next ==
    \/ Cell17 \/ Loop1Next \/ Loop1End \/ Loop1Call \/ Loop1Log \/ Cell19
    \/ Cell21 \/ Cell23 \/ Cell25
    \/ Loop2Next \/ Loop2End \/ Loop2Call \/ Loop2Log \/ Handoff
    \/ Loop3Next \/ Loop3End \/ Loop3Call \/ Loop3Log
    \/ Cell29 \/ Cell31

Spec == Init /\ [][Next]_vars

-----------------------------------------------------------------------------
(* Repeated calls of the step functions on one fixed (state, batch), while  *)
(* the notebook's other statements change the objects and names around them *)

\* the state tuples a training loop can hand to train_step: the initial one
\* of a model, and the ones one step later
StepInputs ==
    LET initial(kernel) ==
            << get_model(kernel).trainable_variables, << >>,
               build(Adam, get_model(kernel).trainable_variables).variables,
               MetricZero >>
    IN  { initial(kernel) : kernel \in InitKernels }
          \cup { train_step_2(initial(kernel), batch)[2] :
                   kernel \in InitKernels, batch \in Batches }

PureInit ==
    /\ pc = "pure"
    /\ \E kernel \in InitKernels : model = get_model(kernel)
    /\ optimizer = build(Adam, model.trainable_variables)
    /\ train_acc_metric = CategoricalAccuracy
    /\ val_acc_metric = CategoricalAccuracy
    /\ defs = [ compute_loss_and_updates |-> 2, grad_fn |-> 2,
                train_step |-> 2, eval_step |-> 1 ]
    /\ state \in StepInputs
    /\ data \in Batches
    /\ trainable_variables = << >>
    /\ non_trainable_variables = << >>
    /\ optimizer_variables = << >>
    /\ metric_variables = << >>
    /\ step = 0
    /\ loss = 0
    /\ grads = << >>
    /\ it = 0
    /\ printed = << >>
    /\ writes = [o \in Objects |-> 0]
    /\ reads = [o \in Objects |-> 0]
    /\ seen = {}
    /\ fed = << >>
    /\ frame = << >>
    /\ trace = << >>
    /\ consumed = << >>

\* whether a statement has changed the objects or names since the first call
Changed ==
    \/ writes["model"] > 0
    \/ writes["train_acc_metric"] > 0
    \/ defs.compute_loss_and_updates = 3

\* train_step(state, data), its result kept beside the earlier ones
RepeatTrainStep ==
    /\ pc = "pure"
    /\ seen' = seen \cup { << "train_step", Changed, train_step_2(state, data) >> }
    /\ UNCHANGED << pc, model, optimizer, train_acc_metric, val_acc_metric,
                    defs, state, trainable_variables, non_trainable_variables,
                    optimizer_variables, metric_variables, step, data, loss,
                    grads, it, printed, writes, reads, fed,
                    frame, trace, consumed >>

\* eval_step on the same trainable, non-trainable and metric variables
RepeatEvalStep ==
    /\ pc = "pure"
    /\ seen' = seen \cup { << "eval_step", Changed,
                              eval_step(<< state[1], state[2], state[4] >>, data) >> }
    /\ UNCHANGED << pc, model, optimizer, train_acc_metric, val_acc_metric,
                    defs, state, trainable_variables, non_trainable_variables,
                    optimizer_variables, metric_variables, step, data, loss,
                    grads, it, printed, writes, reads, fed,
                    frame, trace, consumed >>

\* the logging blocks assign the metric variables a step returned to the
\* metric objects
AmbientLog ==
    /\ pc = "pure"
    /\ writes["train_acc_metric"] = 0
    /\ train_acc_metric' =
         [ train_acc_metric EXCEPT
             !.variables = assign_all(@, train_step_2(state, data)[2][4]) ]
    /\ val_acc_metric' =
         [ val_acc_metric EXCEPT
             !.variables = assign_all(@, train_step_2(state, data)[2][4]) ]
    /\ writes' = Count(writes, {"train_acc_metric", "val_acc_metric"})
    /\ UNCHANGED << pc, model, optimizer, defs, state, trainable_variables,
                    non_trainable_variables, optimizer_variables,
                    metric_variables, step, data, loss, grads, it, printed,
                    reads, seen, fed,
                    frame, trace, consumed >>

\* the re-attachment assigns the variable values a step returned to the model
AmbientAttach ==
    /\ pc = "pure"
    /\ writes["model"] = 0
    /\ model' = [ model EXCEPT
                    !.trainable_variables =
                        assign_all(@, train_step_2(state, data)[2][1]) ]
    /\ writes' = Count(writes, {"model"})
    /\ UNCHANGED << pc, optimizer, train_acc_metric, val_acc_metric, defs,
                    state, trainable_variables, non_trainable_variables,
                    optimizer_variables, metric_variables, step, data, loss,
                    grads, it, printed, reads, seen, fed,
                    frame, trace, consumed >>

\* `model` is bound to the model with the activity regularization layer, and
\* compute_loss_and_updates to its third definition
AmbientRebind ==
    /\ pc = "pure"
    /\ defs.compute_loss_and_updates = 2
    /\ \E kernel \in InitKernels : model' = activity_model(kernel)
    /\ defs' = [ defs EXCEPT !.compute_loss_and_updates = 3 ]
    /\ UNCHANGED << pc, optimizer, train_acc_metric, val_acc_metric, state,
                    trainable_variables, non_trainable_variables,
                    optimizer_variables, metric_variables, step, data, loss,
                    grads, it, printed, writes, reads, seen, fed,
                    frame, trace, consumed >>

PureNext ==
    \/ RepeatTrainStep \/ RepeatEvalStep
    \/ AmbientLog \/ AmbientAttach \/ AmbientRebind

PureSpec == PureInit /\ [][PureNext]_vars

-----------------------------------------------------------------------------
(* A metric fed two batches, one after the other, from its zero state *)

MetricInit ==
    /\ pc = "metric0"
    /\ \E kernel \in InitKernels : model = get_model(kernel)
    /\ optimizer = Adam
    /\ train_acc_metric = CategoricalAccuracy
    /\ val_acc_metric = CategoricalAccuracy
    /\ defs = [ compute_loss_and_updates |-> 2, grad_fn |-> 2,
                train_step |-> 2, eval_step |-> 1 ]
    /\ state = << >>
    /\ data = << >>
    /\ trainable_variables = << >>
    /\ non_trainable_variables = << >>
    /\ optimizer_variables = << >>
    /\ metric_variables = train_acc_metric.variables
    /\ step = 0
    /\ loss = 0
    /\ grads = << >>
    /\ it = 0
    /\ printed = << >>
    /\ writes = [o \in Objects |-> 0]
    /\ reads = [o \in Objects |-> 0]
    /\ seen = {}
    /\ fed = << << >>, << >> >>
    /\ frame = << >>
    /\ trace = << >>
    /\ consumed = << >>

\* metric_variables = metric.stateless_update_state(metric_variables, y, y_pred)
MetricUpdate ==
    /\ pc \in {"metric0", "metric1"}
    /\ \E n \in 1..MaxBatchSize :
         \E y \in [1..n -> { to_categorical(c) : c \in Classes }] :
           \E y_pred \in [1..n -> LogitRows] :
             /\ metric_variables' =
                  stateless_update_state(metric_variables, y, y_pred)
             /\ fed' = << fed[1] \o y, fed[2] \o y_pred >>
    /\ pc' = IF pc = "metric0" THEN "metric1" ELSE "metric2"
    /\ UNCHANGED << model, optimizer, train_acc_metric, val_acc_metric, defs,
                    state, trainable_variables, non_trainable_variables,
                    optimizer_variables, step, data, loss, grads, it, printed,
                    writes, reads, seen, frame, trace, consumed >>

MetricNext == MetricUpdate

MetricSpec == MetricInit /\ [][MetricNext]_vars

-----------------------------------------------------------------------------
(* The loops with metrics over datasets long enough to reach a second log   *)
(* point: each dataset yields MaxLogSteps batches, all equal to its first   *)

\* the state after the cells that define the example with metrics and
\* eval_step
LogInit ==
    /\ pc = "cell25"
    /\ \E kernel \in InitKernels : model = get_model(kernel)
    /\ optimizer = Adam
    /\ train_acc_metric = CategoricalAccuracy
    /\ val_acc_metric = CategoricalAccuracy
    /\ defs = [ compute_loss_and_updates |-> 2, grad_fn |-> 2,
                train_step |-> 2, eval_step |-> 1 ]
    /\ state = << >>
    /\ data = << >>
    /\ trainable_variables = << >>
    /\ non_trainable_variables = << >>
    /\ optimizer_variables = << >>
    /\ metric_variables = << >>
    /\ step = 0
    /\ loss = 0
    /\ grads = << >>
    /\ it = 0
    /\ printed = << >>
    /\ writes = [o \in Objects |-> 0]
    /\ reads = [o \in Objects |-> 0]
    /\ seen = {}
    /\ fed = << >>
    /\ frame = << >>
    /\ trace = << >>
    /\ consumed = << >>

\* for step, data in enumerate(train_dataset): the next batch
LogTrainNext ==
    /\ pc = "loop2"
    /\ it < MaxLogSteps
    /\ \E batch \in Batches :
         /\ it > 0 => batch = data
         /\ data' = batch
    /\ step' = it
    /\ it' = it + 1
    /\ pc' = "loop2_call"
    /\ UNCHANGED << model, optimizer, train_acc_metric, val_acc_metric, defs,
                    state, trainable_variables, non_trainable_variables,
                    optimizer_variables, metric_variables, loss, grads,
                    printed, writes, reads, seen, fed, frame, trace,
                    consumed >>

\* the training dataset is exhausted
LogTrainEnd ==
    /\ pc = "loop2"
    /\ it = MaxLogSteps
    /\ pc' = "handoff"
    /\ UNCHANGED << model, optimizer, train_acc_metric, val_acc_metric, defs,
                    state, trainable_variables, non_trainable_variables,
                    optimizer_variables, metric_variables, step, data, loss,
                    grads, it, printed, writes, reads, seen, fed, frame,
                    trace, consumed >>

\* for step, data in enumerate(val_dataset): the next batch
LogValNext ==
    /\ pc = "loop3"
    /\ it < MaxLogSteps
    /\ \E batch \in Batches :
         /\ it > 0 => batch = data
         /\ data' = batch
    /\ step' = it
    /\ it' = it + 1
    /\ pc' = "loop3_call"
    /\ UNCHANGED << model, optimizer, train_acc_metric, val_acc_metric, defs,
                    state, trainable_variables, non_trainable_variables,
                    optimizer_variables, metric_variables, loss, grads,
                    printed, writes, reads, seen, fed, frame, trace,
                    consumed >>

\* the validation dataset is exhausted
LogValEnd ==
    /\ pc = "loop3"
    /\ it = MaxLogSteps
    /\ pc' = "done"
    /\ UNCHANGED << model, optimizer, train_acc_metric, val_acc_metric, defs,
                    state, trainable_variables, non_trainable_variables,
                    optimizer_variables, metric_variables, step, data, loss,
                    grads, it, printed, writes, reads, seen, fed, frame,
                    trace, consumed >>

LogNext ==
    \/ Cell25 \/ LogTrainNext \/ LogTrainEnd \/ Loop2Call \/ Loop2Log
    \/ Handoff \/ LogValNext \/ LogValEnd \/ Loop3Call \/ Loop3Log

LogSpec == LogInit /\ [][LogNext]_vars

-----------------------------------------------------------------------------
(* One call train_step(state, data) of the example with metrics, statement  *)
(* by statement.  frame holds the local names of train_step and, prefixed    *)
(* clu_, those of the compute_loss_and_updates call that grad_fn makes;      *)
(* trace lists the sub-steps done so far.                                    *)

StepInit ==
    /\ pc = "ts_enter"
    /\ \E kernel \in InitKernels : model = get_model(kernel)
    /\ optimizer = build(Adam, model.trainable_variables)
    /\ train_acc_metric = CategoricalAccuracy
    /\ val_acc_metric = CategoricalAccuracy
    /\ defs = [ compute_loss_and_updates |-> 2, grad_fn |-> 2,
                train_step |-> 2, eval_step |-> 1 ]
    /\ state \in StepInputs
    /\ data \in Batches
    /\ trainable_variables = << >>
    /\ non_trainable_variables = << >>
    /\ optimizer_variables = << >>
    /\ metric_variables = << >>
    /\ step = 0
    /\ loss = 0
    /\ grads = << >>
    /\ it = 0
    /\ printed = << >>
    /\ writes = [o \in Objects |-> 0]
    /\ reads = [o \in Objects |-> 0]
    /\ seen = {}
    /\ fed = << >>
    /\ frame = << >>
    /\ trace = << >>
    /\ consumed = << >>

\* train_step: the four names are unpacked from state, and x, y from data
TsUnpack ==
    /\ pc = "ts_enter"
    /\ frame' = [ trainable_variables |-> state[1],
                  non_trainable_variables |-> state[2],
                  optimizer_variables |-> state[3],
                  metric_variables |-> state[4],
                  x |-> data[1], y |-> data[2],
                  loss |-> 0, grads |-> << >>,
                  clu_y_pred |-> << >>, clu_non_trainable_variables |-> << >>,
                  clu_loss |-> 0, clu_metric_variables |-> state[4],
                  returned |-> << >> ]
    /\ pc' = "clu_call"
    /\ UNCHANGED << model, optimizer, train_acc_metric, val_acc_metric, defs,
                    state, trainable_variables, non_trainable_variables,
                    optimizer_variables, metric_variables, step, data, loss,
                    grads, it, printed, writes, reads, seen, fed, trace,
                    consumed >>

\* compute_loss_and_updates, called by grad_fn on the names of train_step:
\* y_pred, non_trainable_variables = model.stateless_call(...)
CluCall ==
    /\ pc = "clu_call"
    /\ LET out == stateless_call(frame.trainable_variables,
                                 frame.non_trainable_variables, frame.x)
       IN  frame' = [ frame EXCEPT !.clu_y_pred = out[1],
                                   !.clu_non_trainable_variables = out[2] ]
    /\ trace' = Append(trace, "forward pass")
    /\ pc' = "clu_loss"
    /\ UNCHANGED << model, optimizer, train_acc_metric, val_acc_metric, defs,
                    state, trainable_variables, non_trainable_variables,
                    optimizer_variables, metric_variables, step, data, loss,
                    grads, it, printed, writes, reads, seen, fed, consumed >>

\* compute_loss_and_updates: loss = loss_fn(y, y_pred)
CluLoss ==
    /\ pc = "clu_loss"
    /\ frame' = [ frame EXCEPT !.clu_loss = loss_fn(frame.y, frame.clu_y_pred) ]
    /\ trace' = Append(trace, "loss")
    /\ pc' = "clu_metric"
    /\ UNCHANGED << model, optimizer, train_acc_metric, val_acc_metric, defs,
                    state, trainable_variables, non_trainable_variables,
                    optimizer_variables, metric_variables, step, data, loss,
                    grads, it, printed, writes, reads, seen, fed, consumed >>

\* compute_loss_and_updates returning without the metric update
CluUpdateState_skipped ==
    /\ pc = "clu_metric"
    /\ pc' = "grad"
    /\ UNCHANGED << model, optimizer, train_acc_metric, val_acc_metric, defs,
                    state, trainable_variables, non_trainable_variables,
                    optimizer_variables, metric_variables, step, data, loss,
                    grads, it, printed, writes, reads, seen, fed, frame,
                    trace, consumed >>

\* compute_loss_and_updates: metric_variables =
\* train_acc_metric.stateless_update_state(metric_variables, y, y_pred)
CluUpdateState ==
    /\ pc = "clu_metric"
    /\ frame' = [ frame EXCEPT
                    !.clu_metric_variables =
                        stateless_update_state(frame.metric_variables, frame.y,
                                               frame.clu_y_pred) ]
    /\ trace' = Append(trace, "metric accumulation")
    /\ pc' = "grad"
    /\ UNCHANGED << model, optimizer, train_acc_metric, val_acc_metric, defs,
                    state, trainable_variables, non_trainable_variables,
                    optimizer_variables, metric_variables, step, data, loss,
                    grads, it, printed, writes, reads, seen, fed, consumed >>

\* grad_fn differentiates the loss that compute_loss_and_updates returned
\* with respect to trainable_variables, and train_step unpacks
\* (loss, (non_trainable_variables, metric_variables)), grads
GradFn ==
    /\ pc = "grad"
    /\ frame' = [ frame EXCEPT
                    !.grads = Gradient(frame.trainable_variables,
                                       frame.non_trainable_variables,
                                       frame.x, frame.y),
                    !.loss = frame.clu_loss,
                    !.non_trainable_variables = frame.clu_non_trainable_variables,
                    !.metric_variables = frame.clu_metric_variables ]
    /\ trace' = Append(trace, "gradient")
    /\ pc' = "apply"
    /\ UNCHANGED << model, optimizer, train_acc_metric, val_acc_metric, defs,
                    state, trainable_variables, non_trainable_variables,
                    optimizer_variables, metric_variables, step, data, loss,
                    grads, it, printed, writes, reads, seen, fed, consumed >>

\* train_step: trainable_variables, optimizer_variables =
\* optimizer.stateless_apply(optimizer_variables, grads, trainable_variables)
TsApply ==
    /\ pc = "apply"
    /\ LET applied == stateless_apply(frame.optimizer_variables, frame.grads,
                                      frame.trainable_variables)
       IN  frame' = [ frame EXCEPT !.trainable_variables = applied[1],
                                   !.optimizer_variables = applied[2] ]
    /\ trace' = Append(trace, "optimizer update")
    /\ pc' = "ts_return"
    /\ UNCHANGED << model, optimizer, train_acc_metric, val_acc_metric, defs,
                    state, trainable_variables, non_trainable_variables,
                    optimizer_variables, metric_variables, step, data, loss,
                    grads, it, printed, writes, reads, seen, fed, consumed >>

\* train_step: return loss, (trainable_variables, non_trainable_variables,
\* optimizer_variables, metric_variables)
TsReturn ==
    /\ pc = "ts_return"
    /\ frame' = [ frame EXCEPT
                    !.returned =
                        << frame.loss,
                           << frame.trainable_variables,
                              frame.non_trainable_variables,
                              frame.optimizer_variables,
                              frame.metric_variables >> >> ]
    /\ pc' = "ts_done"
    /\ UNCHANGED << model, optimizer, train_acc_metric, val_acc_metric, defs,
                    state, trainable_variables, non_trainable_variables,
                    optimizer_variables, metric_variables, step, data, loss,
                    grads, it, printed, writes, reads, seen, fed, trace,
                    consumed >>

StepNext ==
    \/ TsUnpack \/ CluCall \/ CluLoss \/ CluUpdateState \/ GradFn
    \/ TsApply \/ TsReturn

StepSpec == StepInit /\ [][StepNext]_vars

-----------------------------------------------------------------------------
(* The claims *)

TrainLoop1 == {"loop1", "loop1_call", "loop1_log", "cell19"}

TrainLoop2 == {"loop2", "loop2_call", "loop2_log", "handoff"}

StepCalls == {"loop1_call", "loop2_call", "loop3_call"}

\* the shape signature of a state tuple: its arity and, in order, the number
\* of arrays of each component
Shape(st) == [i \in 1..Len(st) |-> Len(st[i])]

\* every array of a list of arrays holds only zeros
AllZero(arrays) ==
    \A i \in 1..Len(arrays) : \A k \in 1..Len(arrays[i]) : arrays[i][k] = 0

\* C1: from the first train_step call to the re-attachment (or, with metrics,
\* to the hand-off), the model's trainable and non-trainable variables hold
\* the values read before the loop, whatever the state tuple holds.
C1_ModelStaleDuringLoop ==
    (pc \in TrainLoop1 \cup TrainLoop2) =>
        /\ model.trainable_variables = trainable_variables
        /\ model.non_trainable_variables = non_trainable_variables

\* C1, its case: two train_step calls were made and the new values are in the
\* state tuple only
C1_Witness ==
    /\ pc = "loop1"
    /\ it = 2
    /\ state[1] # model.trainable_variables

\* C2: when the training loop has finished and the loop over val_dataset is
\* about to begin, the metric accumulator is at its zero state in the state
\* tuple and in the metric object.
C2_MetricResetAtEpochEnd ==
    (pc = "loop3" /\ it = 0) =>
        /\ state[3] = MetricZero
        /\ train_acc_metric.variables = MetricZero

\* C3: after the re-attachment, the model's trainable and non-trainable
\* variables are exactly the final state tuple's, element by element.
C3_ReattachRoundTrip ==
    (pc = "cell21") =>
        /\ model.trainable_variables = state[1]
        /\ model.non_trainable_variables = state[2]

\* C3, its case: the re-attachment ran after two train_step calls that moved
\* both variables away from every initial value
C3_Witness ==
    /\ pc = "cell21"
    /\ it = 2
    /\ \A kernel \in InitKernels :
         /\ model.trainable_variables[1] # get_model(kernel).trainable_variables[1]
         /\ model.trainable_variables[2] # get_model(kernel).trainable_variables[2]

\* C4: every call of train_step and of eval_step returns a state tuple of the
\* arity and component order of the one it received.
C4_ShapeInvariance ==
    [][(pc \in StepCalls) => Shape(state') = Shape(state)]_vars

\* C4, its case: the second call of train_step with metrics has returned
C4_Witness ==
    /\ pc = "loop2_log"
    /\ it = 2
    /\ Shape(state) = << 2, 0, 6, 2 >>

\* C5: the compute_loss_and_updates bound at any point of the notebook
\* returns a pair (loss, auxiliary outputs).
C5_LossAuxPair ==
    \A batch \in Batches :
        Len(compute_loss_and_updates(model.trainable_variables,
                                     model.non_trainable_variables,
                                     MetricZero, batch[1], batch[2])) = 2

C7_EvalKeepsTrainable ==
    [][(pc = "loop3_call") =>
          /\ state'[1] = state[1]
          /\ Len(state) = 3
          /\ Len(state') = 3
          /\ optimizer_variables' = optimizer_variables
          /\ optimizer' = optimizer]_vars

\* C7, its case: eval_step has returned twice and moved the metric variables
C7_Witness ==
    /\ pc = "loop3_log"
    /\ it = 2
    /\ state[3] # metric_variables

C9_ZeroGradientKeepsParams ==
    [][(/\ pc \in {"loop1_call", "loop2_call"}
        /\ AllZero(Gradient(state[1], state[2], data[1], data[2])))
          => state'[1] = state[1]]_vars

\* C9 as amended: a train_step whose gradient is all zero returns the
\* trainable variables it received when the momentums of the optimizer state
\* it received are all zero.
C9_Amended ==
    [][(/\ pc \in {"loop1_call", "loop2_call"}
        /\ AllZero(Gradient(state[1], state[2], data[1], data[2]))
        /\ AllZero(<< state[3][3], state[3][5] >>))
          => state'[1] = state[1]]_vars

\* C9, its case: the optimizer has applied an all-zero gradient to zero
\* momentums
C9_Witness ==
    /\ pc = "loop2_log"
    /\ AllZero(grads)
    /\ state[3][1] = 1
    /\ AllZero(<< state[3][3], state[3][5] >>)
    /\ state[1] = model.trainable_variables

\* C10: the metric updated from its zero state with two batches, one after
\* the other, reduces to the value of one update with their concatenation.
C10_AdditiveAccumulation ==
    (pc = "metric2") =>
        result(metric_variables)
          = result(stateless_update_state(MetricZero, fed[1], fed[2]))

\* C10, its case: two batches were fed, the first all matches, the second
\* all misses
C10_Witness ==
    /\ pc = "metric2"
    /\ metric_variables[1] >= 1
    /\ metric_variables[2] > metric_variables[1]
    /\ ArgMax(fed[1][1]) = ArgMax(fed[2][1])
    /\ ArgMax(fed[1][Len(fed[1])]) # ArgMax(fed[2][Len(fed[2])])

\* the program points of the logging blocks
LogPoints == {"loop2_log", "loop3_log"}

\* C11: the logging block of a loop runs at the steps that are multiples of 100
\* (step 0 included) and at no other step; it assigns the metric variables of
\* the state tuple the step call has just returned to the metric object and
\* then prints result(), so the printed value is the reduction of the current
\* state's metric accumulator; no other step of the loops changes a metric
\* object or what is printed
C11_LogSyncsBeforeReduce ==
    [][ /\ (pc = "loop2_log" /\ step % LogEvery = 0) =>
             /\ train_acc_metric'.variables = state[4]
             /\ printed' = << "train", step, loss, result(state[4]) >>
             /\ UNCHANGED << state, val_acc_metric >>
        /\ (pc = "loop3_log" /\ step % LogEvery = 0) =>
             /\ val_acc_metric'.variables = state[3]
             /\ printed' = << "val", step, loss, result(state[3]) >>
             /\ UNCHANGED << state, train_acc_metric >>
        /\ ~ (pc \in LogPoints /\ step % LogEvery = 0) =>
             UNCHANGED << train_acc_metric, val_acc_metric, printed >>
      ]_vars

\* the validation loop has logged at step 100 and run step 101 without
\* logging: val_acc_metric still holds the snapshot of step 100, which is no
\* longer the state's accumulator
C11_Witness ==
    /\ pc = "loop3"
    /\ step = LogEvery + 1
    /\ printed[1] = "val"
    /\ printed[2] = LogEvery
    /\ printed[4] = result(val_acc_metric.variables)
    /\ val_acc_metric.variables # state[3]
    /\ train_acc_metric.variables # MetricZero

\* C12: a train_step call does its sub-steps in the order forward pass, loss,
\* gradient, optimizer update, metric accumulation: the metric accumulation
\* comes after the optimizer update
C12_SubStepOrder ==
    (pc = "ts_done") =>
        trace = << "forward pass", "loss", "gradient", "optimizer update",
                   "metric accumulation" >>

\* C12, amended: the order is forward pass, loss, metric accumulation (all in
\* compute_loss_and_updates, which grad_fn calls), gradient, optimizer update;
\* the accumulated metric is that of the predictions under the parameters
\* passed in, and the call returns what train_step returns as a whole
C12_Amended ==
    (pc = "ts_done") =>
        /\ trace = << "forward pass", "loss", "metric accumulation",
                      "gradient", "optimizer update" >>
        /\ frame.returned = train_step_2(state, data)
        /\ frame.returned[2][4] =
             stateless_update_state(
                 state[4], data[2],
                 stateless_call(state[1], state[2], data[1])[1])

\* a finished call whose optimizer update moved the parameters, so that the
\* predictions under the parameters passed in and under the returned ones
\* differ, and whose metric accumulation counted the batch
C12_Witness ==
    /\ pc = "ts_done"
    /\ Len(trace) = 5
    /\ frame.returned[2][1] # state[1]
    /\ stateless_call(frame.returned[2][1], state[2], data[1])[1]
         # stateless_call(state[1], state[2], data[1])[1]
    /\ frame.returned[2][4][2] = state[4][2] + Len(data[2])

\* C13: the first eval_step call gets, as metric accumulator, the variables of
\* val_acc_metric, which are the zero state, and not the accumulator of the
\* training loop's final state
C13_ValMetricStartsFromZero ==
    (pc = "loop3_call" /\ step = 0) =>
        /\ state[3] = val_acc_metric.variables
        /\ state[3] = MetricZero

RECURSIVE EvaluatedVector(_, _)
\* the first n elements of an array as an explicit tuple: the same value with
\* nothing left to compute
EvaluatedVector(v, n) ==
    IF n = 0 THEN << >>
    ELSE Append(EvaluatedVector(v, n - 1), v[n])

RECURSIVE EvaluatedVectors(_, _)
\* the first n arrays of a list of arrays, each as an explicit tuple
EvaluatedVectors(l, n) ==
    IF n = 0 THEN << >>
    ELSE Append(EvaluatedVectors(l, n - 1), EvaluatedVector(l[n], Len(l[n])))

\* a training state tuple as an explicit tuple of explicit tuples; the
\* optimizer variables start with two scalars, iterations and learning rate
EvaluatedState(st) ==
    << EvaluatedVectors(st[1], Len(st[1])),
       EvaluatedVectors(st[2], Len(st[2])),
       << st[3][1], st[3][2] >>
           \o EvaluatedVectors(SubSeq(st[3], 3, Len(st[3])), Len(st[3]) - 2),
       EvaluatedVector(st[4], Len(st[4])) >>

RECURSIVE Thread(_, _)
\* the state after train_step has been applied to the batches in order, each
\* result replacing the state
Thread(st, batches) ==
    IF batches = << >> THEN st
    ELSE CHOOSE last \in
             { Thread(next, Tail(batches)) :
                 next \in { EvaluatedState(returned) :
                               returned \in { train_step_2(st, Head(batches))[2] } } } :
             TRUE

\* the state the training loop with metrics starts from: the variables read
\* from the model, the built optimizer and the fresh metric
InitialState ==
    << model.trainable_variables, model.non_trainable_variables,
       optimizer.variables, CategoricalAccuracy.variables >>

\* C14: in the training loop with metrics the state after an iteration is
\* train_step applied in turn to the batches drawn so far, one call per batch,
\* and the call in progress gets the state threaded through the batches before
\* its own; the evaluation loop starts from the trainable and non-trainable
\* variables of the final training state, in a triple without the optimizer
\* variables
C14_StateThreaded ==
    /\ (pc \in {"loop2", "loop2_log", "handoff"}) =>
          /\ Len(consumed) = it
          /\ state = Thread(InitialState, consumed)
          /\ state[3][1] = it
    /\ (pc = "loop2_call") =>
          /\ Len(consumed) = it
          /\ data = consumed[it]
          /\ state = Thread(InitialState, SubSeq(consumed, 1, it - 1))
    /\ (pc = "loop3" /\ it = 0) =>
          /\ Len(state) = 3
          /\ state[1] = Thread(InitialState, consumed)[1]
          /\ state[2] = Thread(InitialState, consumed)[2]

\* the evaluation loop about to start after two different training batches,
\* whose order matters to the final state, from variables that are no longer
\* the model's
C14_Witness ==
    /\ pc = "loop3"
    /\ it = 0
    /\ Len(consumed) = MaxTrainBatches
    /\ consumed[1] # consumed[2]
    /\ state[1] # model.trainable_variables
    /\ state[1] = Thread(InitialState, consumed)[1]
    /\ state[3] # Thread(InitialState, << consumed[2], consumed[1] >>)[4]

====
